---- MODULE Spec2Model ----
(***************************************************************************)
(* Monitoring-session lifecycle of the RabbitMQ firehose visualizer:       *)
(* the socket.io coordinator of src/src/server/hono.ts driving the         *)
(* RabbitMQFirehoseMonitor of src/unnamed/part_003 (lib/firehose).         *)
(*                                                                         *)
(* Node runs one handler at a time; an async function runs up to its next  *)
(* await and its continuation is a later step.  Every await on the broker  *)
(* is therefore one pending operation whose completion (success or         *)
(* rejection) is an action of its own.                                     *)
(***************************************************************************)
EXTENDS Integers, Sequences, FiniteSets, TLC

\* Bounds of the model.
MaxViewers == 2      \* browser tabs that may connect
MaxStarts == 2       \* startRabbitMQMonitoring() calls that reach monitor.connect()
MaxStops == 2        \* stopRabbitMQMonitoring() calls that reach monitor.stop()
MaxTimers == 2       \* setTimeout handles the runtime can hold pending
MaxIds == 2          \* values the generated part of a message id may take

Viewers == 1..MaxViewers
StartIds == 1..MaxStarts
StopIds == 1..MaxStops
TimerIds == 1..MaxTimers
MsgIds == 1..MaxIds

VARIABLES
    running,                    \* the node process is alive
    sockets,                    \* socket.io sockets currently connected
    connectedClients,           \* hono.ts:28
    isMonitoringStarted,        \* hono.ts:29
    manuallyStoppedMonitoring,  \* hono.ts:30
    disconnectTimeout,          \* hono.ts:31, 0 is null
    timers,                     \* timers pending in the runtime
    connection,                 \* monitor.connection, 0 is null
    channel,                    \* monitor.channel, 0 is null
    isMonitoring,               \* monitor.isMonitoring
    openConns,                  \* broker: open connections of this process
    openChans,                  \* broker: open channels (channel k lives on connection k)
    consumers,                  \* broker: trace queues with a registered consumer
    unacked,                    \* broker: consumers holding a delivery not yet settled
    starts,                     \* the startRabbitMQMonitoring() invocations
    stops,                      \* the monitor.stop() invocations
    emitted,                    \* socket.io messages and broker frames sent by the last step
    monitoringStatus,           \* +page.svelte:46, monitoringStatus.active of each viewer's page
    routingKey,                 \* parseFirehoseMessage: message.fields.routingKey, a sequence of characters
    parsed,                     \* parseFirehoseMessage: the action and target it returned
    messages,                   \* +page.svelte:40, the viewer's message list
    maxMessages,                \* +page.svelte:51
    isPaused,                   \* +page.svelte:58
    arrived                     \* firehose-message events the page has received

coordVars == <<connectedClients, isMonitoringStarted, manuallyStoppedMonitoring, disconnectTimeout>>
monitorVars == <<connection, channel, isMonitoring>>
brokerVars == <<openConns, openChans, consumers, unacked>>
vars == <<running, sockets, connectedClients, isMonitoringStarted,
          manuallyStoppedMonitoring, disconnectTimeout, timers, connection,
          channel, isMonitoring, openConns, openChans, consumers, unacked, starts,
          stops, emitted, monitoringStatus, routingKey, parsed, messages,
          maxMessages, isPaused, arrived>>
parserVars == <<routingKey, parsed>>
pageVars == <<messages, maxMessages, isPaused, arrived>>
serverVars == <<running, sockets, coordVars, timers, monitorVars, brokerVars, starts,
                stops, emitted, monitoringStatus>>

\* ------------------------------------------------------------------------
\* Messages to the viewers

NoCount == 0 - 1

\* Faulty variant of ConnectionStatusMsg: the count is taken before the new
\* viewer is counted in.
ConnectionStatusStaleCount(v, n, a) ==
    [ev |-> "connection-status", to |-> {v}, active |-> a, clientCount |-> n - 1,
     message |-> "connected"]

ConnectionStatusMsg(v, n, a) ==
    [ev |-> "connection-status", to |-> {v}, active |-> a, clientCount |-> n,
     message |-> "connected"]

StatusMessage ==
    IF isMonitoringStarted THEN "RabbitMQ monitoring active"
    ELSE IF manuallyStoppedMonitoring THEN "RabbitMQ monitoring manually stopped"
    ELSE "RabbitMQ monitoring stopped"

\* Faulty variant of MonitoringStatusMsg: every status goes to every socket.
StatusToEverySocket(to, a, m) ==
    [ev |-> "monitoring-status", to |-> sockets, active |-> a, clientCount |-> NoCount,
     message |-> m]

MonitoringStatusMsg(to, a, m) ==
    [ev |-> "monitoring-status", to |-> to, active |-> a, clientCount |-> NoCount,
     message |-> m]

MonitoringErrorMsg(to, m) ==
    [ev |-> "monitoring-error", to |-> to, active |-> FALSE, clientCount |-> NoCount,
     message |-> m]

\* console.log lines, kept where a handler's only other trace is its state change.
LogMsg(m) ==
    [ev |-> "log", to |-> {}, active |-> FALSE, clientCount |-> NoCount, message |-> m]

\* What the pages make of a step's messages.  A page that is not connected shows
\* active = false (its initial value, and what its 'disconnect' handler sets,
\* which also runs when the server process ends); a connected page takes the
\* active field of a monitoring-status sent to it, and false on a
\* monitoring-error.  A status reaches its page in the step that sends it.
StatusesTo(v) ==
    {m \in emitted' : m.ev \in {"monitoring-status", "monitoring-error"} /\ v \in m.to}

Shown(v) ==
    IF ~running' \/ v \notin sockets' THEN FALSE
    ELSE IF StatusesTo(v) # {}
    THEN \E m \in StatusesTo(v) : m.ev = "monitoring-status" /\ m.active
    ELSE monitoringStatus[v]

PagesReceive == monitoringStatus' = [v \in Viewers |-> Shown(v)]

\* ------------------------------------------------------------------------
\* Invocations in flight

IdleStart == [pc |-> "idle", ch |-> 0]
IdleStop == [pc |-> "idle", target |-> 0, by |-> "none"]

NStarts == Cardinality({k \in StartIds : starts[k].pc # "idle"})
NStops == Cardinality({s \in StopIds : stops[s].pc # "idle"})
InFlightStarts == {k \in StartIds : starts[k].pc \notin {"idle", "done", "failed"}}
InFlightStops == {s \in StopIds : stops[s].pc \notin {"idle", "done"}}

\* ------------------------------------------------------------------------
\* parseFirehoseMessage(): the routing key is a string, here a sequence of
\* characters; a string value of the code that is no key is a one-element
\* sequence holding that string.

MaxKeyLen == 4       \* characters in a routing key
Chars == {".", "p", "x"}
RoutingKeys == UNION {[1..n -> Chars] : n \in 0..MaxKeyLen}
Unknown == <<"unknown">>

\* String.prototype.split('.'): the pieces between the dots, empty ones included.
RECURSIVE Split(_)
Split(s) ==
    IF \A i \in 1..Len(s) : s[i] # "."
    THEN <<s>>
    ELSE LET d == CHOOSE i \in 1..Len(s) : s[i] = "." /\ \A j \in 1..(i - 1) : s[j] # "."
         IN  <<SubSeq(s, 1, d - 1)>> \o Split(SubSeq(s, d + 1, Len(s)))

\* split('.', 2): at most the first two pieces, the rest is dropped.
RoutingKeyParts(key) ==
    LET all == Split(key)
    IN  SubSeq(all, 1, IF Len(all) < 2 THEN Len(all) ELSE 2)

\* routingKeyParts[0]
Action(key) == RoutingKeyParts(key)[1]

\* Faulty variant of Target: everything after the first dot.
TargetRestOfKey(key) ==
    IF Len(Split(key)) >= 2 /\ SubSeq(key, Len(Split(key)[1]) + 2, Len(key)) # <<>>
    THEN SubSeq(key, Len(Split(key)[1]) + 2, Len(key))
    ELSE Unknown

\* routingKeyParts[1] || 'unknown': undefined and the empty string are falsy.
Target(key) ==
    LET parts == RoutingKeyParts(key)
    IN  IF Len(parts) >= 2 /\ parts[2] # <<>> THEN parts[2] ELSE Unknown

NotParsed == [done |-> FALSE, action |-> <<>>, target |-> <<>>]

ParserIdle ==
    /\ routingKey = <<>>
    /\ parsed = NotParsed

ParseFirehoseMessage ==
    /\ ~parsed.done
    /\ parsed' = [done |-> TRUE, action |-> Action(routingKey), target |-> Target(routingKey)]
    /\ UNCHANGED <<routingKey, serverVars, pageVars>>

\* ------------------------------------------------------------------------
\* The page of a viewer: the message list and its controls.

DefaultLimit == 2    \* maxMessages when the page loads
MaxLimit == 3        \* largest value the "Max messages" input is given
MaxArrivals == 4     \* firehose-message events a page receives

PageInit ==
    /\ messages = <<>>
    /\ maxMessages = DefaultLimit
    /\ isPaused = FALSE
    /\ arrived = 0

\* ------------------------------------------------------------------------
\* The server after construction.

ServerInit ==
    /\ running = TRUE
    /\ sockets = {}
    /\ connectedClients = 0
    /\ isMonitoringStarted = FALSE
    /\ manuallyStoppedMonitoring = FALSE
    /\ disconnectTimeout = 0
    /\ timers = {}
    /\ connection = 0
    /\ channel = 0
    /\ isMonitoring = FALSE
    /\ openConns = {}
    /\ openChans = {}
    /\ consumers = {}
    /\ unacked = {}
    /\ starts = [k \in StartIds |-> IdleStart]
    /\ stops = [s \in StopIds |-> IdleStop]
    /\ emitted = {}
    /\ monitoringStatus = [v \in Viewers |-> FALSE]

Init == ServerInit /\ ParserIdle /\ PageInit

\* ------------------------------------------------------------------------
\* process.exit(0): the process is gone, the OS closes its broker sockets and
\* with them every channel, exclusive queue and consumer the process held.

ProcessExit ==
    /\ running' = FALSE
    /\ openConns' = {}
    /\ openChans' = {}
    /\ consumers' = {}
    /\ unacked' = {}

\* ------------------------------------------------------------------------
\* startRabbitMQMonitoring(), up to its first await: the early return on the
\* flag, then monitor.connect() up to `await amqp.connect(...)`.

StartCall ==
    IF isMonitoringStarted
    THEN UNCHANGED starts
    ELSE /\ NStarts < MaxStarts
         /\ starts' = [starts EXCEPT ![NStarts + 1] = [pc |-> "connect", ch |-> 0]]

\* monitor.stop(), up to its first await: clears isMonitoring, then awaits
\* channel.close() if a channel is held, else connection.close() if a connection
\* is held, else runs through to process.exit(0).

MonitorStopCall(by) ==
    /\ NStops < MaxStops
    /\ isMonitoring' = FALSE
    /\ IF channel # 0
       THEN /\ stops' = [stops EXCEPT ![NStops + 1] = [pc |-> "closeChannel", target |-> channel, by |-> by]]
            /\ UNCHANGED <<running, openConns, openChans, consumers, unacked>>
       ELSE IF connection # 0
       THEN /\ stops' = [stops EXCEPT ![NStops + 1] = [pc |-> "closeConnection", target |-> connection, by |-> by]]
            /\ UNCHANGED <<running, openConns, openChans, consumers, unacked>>
       ELSE /\ stops' = [stops EXCEPT ![NStops + 1] = [pc |-> "done", target |-> 0, by |-> by]]
            /\ ProcessExit

\* stopRabbitMQMonitoring(), up to its first await.

StopCall(by) ==
    IF ~isMonitoringStarted
    THEN UNCHANGED <<isMonitoring, stops, running, openConns, openChans, consumers, unacked>>
    ELSE MonitorStopCall(by)

\* ------------------------------------------------------------------------
\* io.on('connection')

\* Faulty variant of ClearDisconnectTimeout: the connection handler forgets the
\* pending timer.
KeepDisconnectTimeout == UNCHANGED <<timers, disconnectTimeout>>

ClearDisconnectTimeout ==
    IF disconnectTimeout # 0
    THEN /\ timers' = timers \ {disconnectTimeout}
         /\ disconnectTimeout' = 0
    ELSE UNCHANGED <<timers, disconnectTimeout>>

\* Faulty variant of AutoStartOnConnect: a connection never starts monitoring.
NoAutoStartOnConnect == FALSE

\* Faulty variant of AutoStartOnConnect: a manual stop does not hold back the
\* auto-start.
AutoStartDespiteManualStop == ~isMonitoringStarted

AutoStartOnConnect == ~isMonitoringStarted /\ ~manuallyStoppedMonitoring

Connection(v) ==
    /\ running
    /\ v \notin sockets
    /\ sockets' = sockets \cup {v}
    /\ connectedClients' = connectedClients + 1
    /\ ClearDisconnectTimeout
    /\ emitted' = {ConnectionStatusMsg(v, connectedClients + 1, isMonitoringStarted),
                   MonitoringStatusMsg({v}, isMonitoringStarted, StatusMessage)}
                  \cup (IF disconnectTimeout # 0
                        THEN {LogMsg("Cancelled monitoring shutdown due to new connection")}
                        ELSE {})
    /\ IF AutoStartOnConnect THEN StartCall ELSE UNCHANGED starts
    /\ UNCHANGED <<running, isMonitoringStarted, manuallyStoppedMonitoring,
                   monitorVars, brokerVars, stops>>
    /\ PagesReceive
    /\ UNCHANGED <<parserVars, pageVars>>

\* socket.on('disconnect')

\* Faulty variant of ShouldArm: the timer is armed whenever the last viewer
\* leaves, active or not.
ShouldArmWheneverEmpty(n) == n = 0

\* Faulty variant of ShouldArm: the timer is armed at every disconnect of an
\* active session, viewers left or not.
ShouldArmWhenActive(n) == isMonitoringStarted

ShouldArm(n) == n = 0 /\ isMonitoringStarted

FreshTimer == CHOOSE t \in TimerIds : t \notin timers /\ \A u \in TimerIds \ timers : t <= u

ArmDisconnectTimeout ==
    /\ timers # TimerIds
    /\ timers' = timers \cup {FreshTimer}
    /\ disconnectTimeout' = FreshTimer

\* Faulty variant of Disconnect: the handler also forgets a manual stop.
DisconnectForgetsManualStop(v) ==
    /\ running
    /\ v \in sockets
    /\ sockets' = sockets \ {v}
    /\ connectedClients' = connectedClients - 1
    /\ IF ShouldArm(connectedClients - 1)
       THEN ArmDisconnectTimeout
       ELSE UNCHANGED <<timers, disconnectTimeout>>
    /\ emitted' = {}
    /\ manuallyStoppedMonitoring' = FALSE
    /\ UNCHANGED <<running, isMonitoringStarted, monitorVars, brokerVars, starts, stops>>
    /\ PagesReceive
    /\ UNCHANGED <<parserVars, pageVars>>

\* Faulty variant of Disconnect: the handler does not count the viewer out.
DisconnectKeepsCount(v) ==
    /\ running
    /\ v \in sockets
    /\ sockets' = sockets \ {v}
    /\ connectedClients' = connectedClients
    /\ IF ShouldArm(connectedClients - 1)
       THEN ArmDisconnectTimeout
       ELSE UNCHANGED <<timers, disconnectTimeout>>
    /\ emitted' = {}
    /\ UNCHANGED <<running, isMonitoringStarted, manuallyStoppedMonitoring,
                   monitorVars, brokerVars, starts, stops>>
    /\ PagesReceive
    /\ UNCHANGED <<parserVars, pageVars>>

Disconnect(v) ==
    /\ running
    /\ v \in sockets
    /\ sockets' = sockets \ {v}
    /\ connectedClients' = connectedClients - 1
    /\ IF ShouldArm(connectedClients - 1)
       THEN ArmDisconnectTimeout
       ELSE UNCHANGED <<timers, disconnectTimeout>>
    /\ emitted' = {}
    /\ UNCHANGED <<running, isMonitoringStarted, manuallyStoppedMonitoring,
                   monitorVars, brokerVars, starts, stops>>
    /\ PagesReceive
    /\ UNCHANGED <<parserVars, pageVars>>

\* The setTimeout callback armed by the disconnect handler.

TimerShouldStop == connectedClients = 0 /\ isMonitoringStarted

DisconnectTimeoutFired(t) ==
    /\ running
    /\ t \in timers
    /\ timers' = timers \ {t}
    /\ IF TimerShouldStop
       THEN /\ manuallyStoppedMonitoring' = FALSE
            /\ StopCall("timer")
       ELSE UNCHANGED <<manuallyStoppedMonitoring, isMonitoring, stops, running,
                        openConns, openChans, consumers, unacked>>
    /\ disconnectTimeout' = IF running' THEN 0 ELSE disconnectTimeout
    /\ emitted' = {}
    /\ UNCHANGED <<sockets, connectedClients, isMonitoringStarted, connection,
                   channel, starts>>
    /\ PagesReceive
    /\ UNCHANGED <<parserVars, pageVars>>

\* socket.on('start-monitoring')

StartMonitoringRequest(v) ==
    /\ running
    /\ v \in sockets
    /\ manuallyStoppedMonitoring' = FALSE
    /\ IF ~isMonitoringStarted
       THEN /\ StartCall
            /\ emitted' = {}
       ELSE /\ UNCHANGED starts
            /\ emitted' = {MonitoringStatusMsg({v}, TRUE, "RabbitMQ monitoring already active")}
    /\ UNCHANGED <<running, sockets, connectedClients, isMonitoringStarted,
                   disconnectTimeout, timers, monitorVars, brokerVars, stops>>
    /\ PagesReceive
    /\ UNCHANGED <<parserVars, pageVars>>

\* socket.on('stop-monitoring')

StopMonitoringRequest(v) ==
    /\ running
    /\ v \in sockets
    /\ manuallyStoppedMonitoring' = TRUE
    /\ IF isMonitoringStarted
       THEN /\ StopCall("viewer")
            /\ emitted' = {}
       ELSE /\ UNCHANGED <<isMonitoring, stops, running, openConns, openChans, consumers, unacked>>
            /\ emitted' = {MonitoringStatusMsg({v}, FALSE, "RabbitMQ monitoring already stopped")}
    /\ UNCHANGED <<sockets, connectedClients, isMonitoringStarted, disconnectTimeout,
                   timers, connection, channel, starts>>
    /\ PagesReceive
    /\ UNCHANGED <<parserVars, pageVars>>

\* ------------------------------------------------------------------------
\* startRabbitMQMonitoring(): the continuations after each await.

\* The catch of startRabbitMQMonitoring(): the error goes to every viewer.
StartFailed(k, m) ==
    /\ starts' = [starts EXCEPT ![k] = [pc |-> "failed", ch |-> 0]]
    /\ emitted' = {MonitoringErrorMsg(sockets, m)}

\* The next channel operation of monitor.startMonitoring() is issued on whatever
\* this.channel holds at that moment; on null the call throws.
IssueOnChannel(k, op) ==
    IF channel' = 0
    THEN StartFailed(k, "Failed to start monitoring")
    ELSE /\ starts' = [starts EXCEPT ![k] = [pc |-> op, ch |-> channel']]
         /\ emitted' = {}

\* monitor.connect(): `this.connection = await amqp.connect(url)` resolves.
AmqpConnectDone(k, ok) ==
    /\ running
    /\ starts[k].pc = "connect"
    /\ IF ok
       THEN /\ connection' = k
            /\ openConns' = openConns \cup {k}
            /\ starts' = [starts EXCEPT ![k] = [pc |-> "createChannel", ch |-> k]]
            /\ emitted' = {}
       ELSE /\ StartFailed(k, "Failed to connect to RabbitMQ")
            /\ UNCHANGED <<connection, openConns>>
    /\ UNCHANGED <<running, sockets, coordVars, timers, channel, isMonitoring,
                   openChans, consumers, unacked, stops>>
    /\ PagesReceive
    /\ UNCHANGED <<parserVars, pageVars>>

\* The guard `if (this.isMonitoring) throw` at the head of monitor.startMonitoring().
AlreadyMonitoring == isMonitoring

\* monitor.connect(): `this.channel = await this.connection.createChannel()`
\* resolves; connect() returns and monitor.startMonitoring() runs up to
\* `await this.channel.assertQueue(...)`.
CreateChannelDone(k, ok) ==
    /\ running
    /\ starts[k].pc = "createChannel"
    /\ ok => starts[k].ch \in openConns
    /\ IF ok
       THEN /\ channel' = k
            /\ openChans' = openChans \cup {k}
            /\ IF AlreadyMonitoring
               THEN StartFailed(k, "Already monitoring")
               ELSE IssueOnChannel(k, "assertQueue")
       ELSE /\ StartFailed(k, "Failed to connect to RabbitMQ")
            /\ UNCHANGED <<channel, openChans>>
    /\ UNCHANGED <<running, sockets, coordVars, timers, connection, isMonitoring,
                   openConns, consumers, unacked, stops>>
    /\ PagesReceive
    /\ UNCHANGED <<parserVars, pageVars>>

\* A channel operation succeeds only on an open channel; the trace queue of
\* invocation k is exclusive to connection k, so an operation that names the
\* queue succeeds only on channel k.
ChannelOpCanSucceed(k, namesQueue) ==
    /\ starts[k].ch \in openChans
    /\ namesQueue => starts[k].ch = k

\* `await this.channel.assertQueue('', {exclusive, autoDelete})` resolves.
AssertQueueDone(k, ok) ==
    /\ running
    /\ starts[k].pc = "assertQueue"
    /\ ok => ChannelOpCanSucceed(k, FALSE)
    /\ UNCHANGED channel
    /\ IF ok
       THEN IssueOnChannel(k, "bindQueue")
       ELSE StartFailed(k, "Failed to start monitoring")
    /\ UNCHANGED <<running, sockets, coordVars, timers, connection, isMonitoring,
                   brokerVars, stops>>
    /\ PagesReceive
    /\ UNCHANGED <<parserVars, pageVars>>

\* `await this.channel.bindQueue(queueName, 'amq.rabbitmq.trace', routingKey)` resolves.
BindQueueDone(k, ok) ==
    /\ running
    /\ starts[k].pc = "bindQueue"
    /\ ok => ChannelOpCanSucceed(k, TRUE)
    /\ UNCHANGED channel
    /\ IF ok
       THEN IssueOnChannel(k, "prefetch")
       ELSE StartFailed(k, "Failed to start monitoring")
    /\ UNCHANGED <<running, sockets, coordVars, timers, connection, isMonitoring,
                   brokerVars, stops>>
    /\ PagesReceive
    /\ UNCHANGED <<parserVars, pageVars>>

\* `await this.channel.prefetch(1)` resolves.
PrefetchDone(k, ok) ==
    /\ running
    /\ starts[k].pc = "prefetch"
    /\ ok => ChannelOpCanSucceed(k, FALSE)
    /\ UNCHANGED channel
    /\ IF ok
       THEN IssueOnChannel(k, "consume")
       ELSE StartFailed(k, "Failed to start monitoring")
    /\ UNCHANGED <<running, sockets, coordVars, timers, connection, isMonitoring,
                   brokerVars, stops>>
    /\ PagesReceive
    /\ UNCHANGED <<parserVars, pageVars>>

\* Faulty variant of FlagAfterStart: the flag is not raised after a successful
\* start.
FlagNotRaised == FALSE

\* `isMonitoringStarted = true` once monitor.startMonitoring() has returned.
FlagAfterStart == TRUE

\* `await this.channel.consume(queueName, cb)` resolves: monitor.isMonitoring is
\* set, startMonitoring() returns, and startRabbitMQMonitoring() sets its flag
\* and tells every viewer.
ConsumeDone(k, ok) ==
    /\ running
    /\ starts[k].pc = "consume"
    /\ ok => ChannelOpCanSucceed(k, TRUE)
    /\ IF ok
       THEN /\ consumers' = consumers \cup {k}
            /\ UNCHANGED unacked
            /\ isMonitoring' = TRUE
            /\ isMonitoringStarted' = FlagAfterStart
            /\ starts' = [starts EXCEPT ![k] = [pc |-> "done", ch |-> 0]]
            /\ emitted' = {MonitoringStatusMsg(sockets, TRUE, "RabbitMQ monitoring started")}
       ELSE /\ StartFailed(k, "Failed to start monitoring")
            /\ UNCHANGED <<consumers, unacked, isMonitoring, isMonitoringStarted>>
    /\ UNCHANGED <<running, sockets, connectedClients, manuallyStoppedMonitoring,
                   disconnectTimeout, timers, connection, channel, openConns,
                   openChans, stops>>
    /\ PagesReceive
    /\ UNCHANGED <<parserVars, pageVars>>

\* ------------------------------------------------------------------------
\* monitor.stop(): the continuations after each await.  stop() ends in
\* process.exit(0), so the `await monitor.stop()` of stopRabbitMQMonitoring()
\* never resumes and the lines after it (hono.ts:156-171) never run.

\* `await this.channel.close()` resolves or is caught; this.channel = null; then
\* connection.close() is awaited if a connection is held.
CloseChannelDone(s, ok) ==
    /\ running
    /\ stops[s].pc = "closeChannel"
    /\ ok => stops[s].target \in openChans
    /\ channel' = 0
    /\ IF connection # 0
       THEN /\ stops' = [stops EXCEPT ![s] = [stops[s] EXCEPT !.pc = "closeConnection", !.target = connection]]
            /\ openChans' = IF ok THEN openChans \ {stops[s].target} ELSE openChans
            /\ consumers' = IF ok THEN consumers \ {stops[s].target} ELSE consumers
            /\ unacked' = IF ok THEN unacked \ {stops[s].target} ELSE unacked
            /\ UNCHANGED <<running, openConns>>
       ELSE /\ stops' = [stops EXCEPT ![s] = [stops[s] EXCEPT !.pc = "done", !.target = 0]]
            /\ ProcessExit
    /\ emitted' = {}
    /\ UNCHANGED <<sockets, coordVars, timers, connection, isMonitoring, starts>>
    /\ PagesReceive
    /\ UNCHANGED <<parserVars, pageVars>>

\* `await this.connection.close()` resolves or is caught; this.connection = null;
\* process.exit(0).
CloseConnectionDone(s, ok) ==
    /\ running
    /\ stops[s].pc = "closeConnection"
    /\ ok => stops[s].target \in openConns
    /\ connection' = 0
    /\ stops' = [stops EXCEPT ![s] = [stops[s] EXCEPT !.pc = "done", !.target = 0]]
    /\ ProcessExit
    /\ emitted' = {}
    /\ UNCHANGED <<sockets, coordVars, timers, channel, isMonitoring, starts>>
    /\ PagesReceive
    /\ UNCHANGED <<parserVars, pageVars>>

\* ------------------------------------------------------------------------
\* The consume callback of monitor.startMonitoring() together with the onMessage
\* that startRabbitMQMonitoring() passes to it.

\* onMessage: one object {...message, id, displayTime} with one generated id,
\* sent by one io.emit to every connected socket.  The record is named by the
\* trace queue it came from.
FirehoseMsg(to, k, id) ==
    [ev |-> "firehose-message", to |-> to, record |-> k, id |-> id]

\* channel.ack(message) / channel.nack(message, false, false): a frame on
\* channel c carrying the delivery tag of a message of channel k.
AckFrame(c, k) == [ev |-> "ack", to |-> {}, on |-> c, tag |-> k, requeue |-> FALSE]
NackFrame(c, k) == [ev |-> "nack", to |-> {}, on |-> c, tag |-> k, requeue |-> FALSE]

\* `if (this.channel) this.channel.ack(message)` at the end of the try block and
\* `if (this.channel) this.channel.nack(message, false, false)` in the catch:
\* nothing is sent when this.channel is null, and a closed channel object
\* rejects the call.
SettleFrames(c, k, good) ==
    IF c = 0 \/ c \notin openChans THEN {}
    ELSE IF good THEN {AckFrame(c, k)} ELSE {NackFrame(c, k)}

\* Faulty variant of Dispatch: the coordinator sends one message per socket,
\* each with an id of its own.
DispatchPerSocket(k, good, id) ==
    IF good THEN {FirehoseMsg({v}, k, id + v) : v \in sockets} ELSE {}

\* parseFirehoseMessage() and onMessage(): good means neither threw.
Dispatch(k, good, id) ==
    IF good THEN {FirehoseMsg(sockets, k, id)} ELSE {}

\* The broker delivers a trace record to consumer k; after prefetch(1) it does so
\* only while k holds no unsettled delivery.  The settlement goes out on whatever
\* this.channel holds now.  Without a frame on channel k the delivery stays
\* unsettled.  A frame on another channel c carries a tag of channel k: it
\* settles c's own outstanding delivery if the tags happen to coincide, and
\* otherwise names a tag unknown on c, for which the broker closes c.
TraceDelivered(k, good, id) ==
    /\ running
    /\ k \in consumers
    /\ k \notin unacked
    /\ emitted' = Dispatch(k, good, id) \cup SettleFrames(channel, k, good)
    /\ IF SettleFrames(channel, k, good) = {}
       THEN /\ unacked' = unacked \cup {k}
            /\ UNCHANGED <<openChans, consumers>>
       ELSE IF channel = k
       THEN UNCHANGED <<openChans, consumers, unacked>>
       ELSE \E unknownTag \in BOOLEAN :
               IF unknownTag \/ channel \notin unacked
               THEN /\ openChans' = openChans \ {channel}
                    /\ consumers' = consumers \ {channel}
                    /\ unacked' = (unacked \cup {k}) \ {channel}
               ELSE /\ unacked' = (unacked \cup {k}) \ {channel}
                    /\ UNCHANGED <<openChans, consumers>>
    /\ UNCHANGED <<running, sockets, coordVars, timers, monitorVars, openConns,
                   starts, stops>>
    /\ PagesReceive
    /\ UNCHANGED <<parserVars, pageVars>>

\* ------------------------------------------------------------------------

Next ==
    \/ \E v \in Viewers : Connection(v)
    \/ \E v \in Viewers : Disconnect(v)
    \/ \E t \in TimerIds : DisconnectTimeoutFired(t)
    \/ \E v \in Viewers : StartMonitoringRequest(v)
    \/ \E v \in Viewers : StopMonitoringRequest(v)
    \/ \E k \in StartIds, ok \in BOOLEAN : AmqpConnectDone(k, ok)
    \/ \E k \in StartIds, ok \in BOOLEAN : CreateChannelDone(k, ok)
    \/ \E k \in StartIds, ok \in BOOLEAN : AssertQueueDone(k, ok)
    \/ \E k \in StartIds, ok \in BOOLEAN : BindQueueDone(k, ok)
    \/ \E k \in StartIds, ok \in BOOLEAN : PrefetchDone(k, ok)
    \/ \E k \in StartIds, ok \in BOOLEAN : ConsumeDone(k, ok)
    \/ \E s \in StopIds, ok \in BOOLEAN : CloseChannelDone(s, ok)
    \/ \E s \in StopIds, ok \in BOOLEAN : CloseConnectionDone(s, ok)
    \/ \E k \in StartIds, good \in BOOLEAN, id \in MsgIds : TraceDelivered(k, good, id)

Spec == Init /\ [][Next]_vars

\* The event loop runs every handler that is ready: a pending timer fires and
\* every pending broker operation completes.  Viewers owe the server nothing.
Fairness ==
    /\ WF_vars(\E t \in TimerIds : DisconnectTimeoutFired(t))
    /\ WF_vars(\E k \in StartIds, ok \in BOOLEAN : AmqpConnectDone(k, ok))
    /\ WF_vars(\E k \in StartIds, ok \in BOOLEAN : CreateChannelDone(k, ok))
    /\ WF_vars(\E k \in StartIds, ok \in BOOLEAN : AssertQueueDone(k, ok))
    /\ WF_vars(\E k \in StartIds, ok \in BOOLEAN : BindQueueDone(k, ok))
    /\ WF_vars(\E k \in StartIds, ok \in BOOLEAN : PrefetchDone(k, ok))
    /\ WF_vars(\E k \in StartIds, ok \in BOOLEAN : ConsumeDone(k, ok))
    /\ WF_vars(\E s \in StopIds, ok \in BOOLEAN : CloseChannelDone(s, ok))
    /\ WF_vars(\E s \in StopIds, ok \in BOOLEAN : CloseConnectionDone(s, ok))

FairSpec == Spec /\ Fairness

\* ------------------------------------------------------------------------
\* The monitor used on its own: RabbitMQFirehoseMonitor is the module's default
\* export, and any holder of an instance may call stop() on it at any time,
\* before connect() included.

DirectStop ==
    /\ running
    /\ MonitorStopCall("caller")
    /\ emitted' = {}
    /\ UNCHANGED <<sockets, coordVars, timers, connection, channel, starts>>
    /\ PagesReceive
    /\ UNCHANGED <<parserVars, pageVars>>

ApiNext == Next \/ DirectStop

ApiSpec == Init /\ [][ApiNext]_vars

\* ------------------------------------------------------------------------
\* parseFirehoseMessage() applied to every routing key up to MaxKeyLen.

ParseInit ==
    /\ ServerInit
    /\ PageInit
    /\ routingKey \in RoutingKeys
    /\ parsed = NotParsed

ParseNext == ParseFirehoseMessage

ParseSpec == ParseInit /\ [][ParseNext]_vars

\* ------------------------------------------------------------------------
\* The page's handlers.  A message is named by its arrival number.

Limits == 1..MaxLimit

\* Array.prototype.slice(0, n): the first n entries, or all but the last -n
\* when n is negative.
SliceFromStart(seq, n) ==
    LET upto == IF n < 0 THEN Len(seq) + n ELSE n
    IN  SubSeq(seq, 1, IF upto > Len(seq) THEN Len(seq) ELSE upto)

\* addMessage(): messages = [message, ...messages.slice(0, maxMessages - 1)]
AddMessage(m) == <<m>> \o SliceFromStart(messages, maxMessages - 1)

\* socket.on('firehose-message'): dropped while paused.
FirehoseMessageReceived ==
    /\ arrived < MaxArrivals
    /\ arrived' = arrived + 1
    /\ messages' = IF isPaused THEN messages ELSE AddMessage(arrived + 1)
    /\ UNCHANGED <<maxMessages, isPaused, serverVars, parserVars>>

ClearMessages ==
    /\ messages' = <<>>
    /\ UNCHANGED <<maxMessages, isPaused, arrived, serverVars, parserVars>>

TogglePause ==
    /\ isPaused' = ~isPaused
    /\ UNCHANGED <<messages, maxMessages, arrived, serverVars, parserVars>>

\* The "Max messages" input, bound to maxMessages.
SetMaxMessages(n) ==
    /\ maxMessages' = n
    /\ UNCHANGED <<messages, isPaused, arrived, serverVars, parserVars>>

PageNext ==
    \/ FirehoseMessageReceived
    \/ ClearMessages
    \/ TogglePause
    \/ \E n \in Limits : SetMaxMessages(n)

PageSpec == Init /\ [][PageNext]_vars

\* ------------------------------------------------------------------------
\* Properties

TypeOK ==
    /\ running \in BOOLEAN
    /\ sockets \subseteq Viewers
    /\ connectedClients \in 0..MaxViewers
    /\ isMonitoringStarted \in BOOLEAN
    /\ manuallyStoppedMonitoring \in BOOLEAN
    /\ disconnectTimeout \in {0} \cup TimerIds
    /\ timers \subseteq TimerIds
    /\ connection \in {0} \cup StartIds
    /\ channel \in {0} \cup StartIds
    /\ isMonitoring \in BOOLEAN
    /\ openConns \subseteq StartIds
    /\ openChans \subseteq openConns
    /\ consumers \subseteq openChans
    /\ unacked \subseteq consumers
    /\ monitoringStatus \in [Viewers -> BOOLEAN]

\* C1: while a start is awaiting the broker, no second start is issued: at most
\* one startRabbitMQMonitoring() invocation is in flight.
C1_OneStartInFlight == Cardinality(InFlightStarts) <= 1

\* C2: at most one upstream trace subscription (a trace queue with a registered
\* consumer) exists in every reachable state.
C2_AtMostOneSubscription == Cardinality(consumers) <= 1

\* C3: a viewer connecting while the grace timer is armed and monitoring is
\* active cancels the timer (its callback can no longer run), leaves
\* isMonitoringStarted true and calls no stop; and while the timer is armed the
\* flag never drops.
C3_ReconnectCancelsShutdown ==
    [][/\ (disconnectTimeout # 0 /\ isMonitoringStarted /\ \E v \in Viewers : Connection(v))
          => /\ disconnectTimeout' = 0
             /\ timers' = {}
             /\ isMonitoringStarted'
             /\ stops' = stops
             /\ running'
       /\ (disconnectTimeout # 0 /\ isMonitoringStarted) => isMonitoringStarted'
      ]_vars

\* C3 witness: a viewer has just connected to an active session with no viewer
\* before it and cancelled the armed timer; no timer is left and no stop was
\* ever called.
C3_Witness ==
    /\ running
    /\ isMonitoringStarted
    /\ connectedClients = 1
    /\ disconnectTimeout = 0
    /\ timers = {}
    /\ NStops = 0
    /\ \E m \in emitted : m.ev = "connection-status" /\ m.clientCount = 1 /\ m.active
    /\ \E m \in emitted : m.ev = "log"

\* C4: a stop called by the grace timer, once complete, leaves the coordinator
\* running and Idle with manualStop false and "stopped" told to the viewers.
C4_ExpiryStopsCleanly ==
    \A s \in StopIds :
        (stops[s].by = "timer" /\ stops[s].pc = "done")
            => /\ running
               /\ ~isMonitoringStarted
               /\ ~manuallyStoppedMonitoring

\* C5: while manualStop is set (an ExplicitStop with no ExplicitStart after it)
\* and no stop is still in flight, the session is Idle, and a viewer connecting
\* then issues no start.
C5_ManualStopSuppressesAutoStart ==
    /\ [](running /\ manuallyStoppedMonitoring /\ InFlightStops = {} => ~isMonitoringStarted)
    /\ [][(manuallyStoppedMonitoring /\ \E v \in Viewers : Connection(v)) => starts' = starts]_vars

\* C6: monitoring that is active with no viewer connected is eventually stopped,
\* unless a viewer comes back.
C6_ZeroViewersEventuallyStopped ==
    (running /\ connectedClients = 0 /\ isMonitoringStarted)
        ~> (~running \/ connectedClients > 0 \/ ~isMonitoringStarted)

\* C7: the grace timer is armed only while no viewer is connected and
\* monitoring is active; the handle and the runtime's pending timers agree on it.
C7_TimerArmedOnlyWhenIdleViewers ==
    running =>
        /\ disconnectTimeout # 0 => (connectedClients = 0 /\ isMonitoringStarted)
        /\ timers # {} => (connectedClients = 0 /\ isMonitoringStarted)

\* C7 witness: the timer is armed.
C7_Witness ==
    running /\ disconnectTimeout # 0 /\ disconnectTimeout \in timers

\* C8 (as claimed): the flag is true exactly when a subscription exists.
C8_FlagIffSubscription ==
    running => (isMonitoringStarted <=> consumers # {})

\* C8 (amended): no consumer exists while the flag is false, and the flag is
\* raised only by the step that registers a consumer.
C8_FlagTracksSubscription ==
    /\ [](running /\ ~isMonitoringStarted => consumers = {})
    /\ [][(~isMonitoringStarted /\ isMonitoringStarted')
            => (consumers' # {} /\ consumers' # consumers)]_vars

\* C8 witness: the flag is still true while a stop in flight has already closed
\* the channel and with it the consumer.
C8_Witness ==
    running /\ isMonitoringStarted /\ consumers = {} /\ InFlightStops # {}

\* C9: once a stop attempt has completed, the coordinator is running and Idle.
C9_StopAlwaysReachesIdle ==
    \A s \in StopIds : stops[s].pc = "done" => (running /\ ~isMonitoringStarted)

\* C10: a start attempt that fails tells every viewer, leaves the session Idle
\* and leaves manualStop as it was.
C10_StartFailureLeavesIdle ==
    [][\A k \in StartIds :
          (starts[k].pc # "failed" /\ starts'[k].pc = "failed")
              => /\ \E m \in emitted' : m.ev = "monitoring-error" /\ m.to = sockets
                 /\ ~isMonitoringStarted'
                 /\ manuallyStoppedMonitoring' = manuallyStoppedMonitoring
                 /\ running'
      ]_vars

\* C11: a stop-monitoring request always sets manuallyStoppedMonitoring and,
\* when the session is active, invokes monitor.stop(); in the step in which that
\* stop completes the process is still running, the session is idle and every
\* viewer is sent a monitoring-status with active = false.
C11_ExplicitStopCompletes ==
    [][ /\ \A v \in Viewers : StopMonitoringRequest(v) =>
              /\ manuallyStoppedMonitoring'
              /\ isMonitoringStarted => NStops' = NStops + 1
        /\ \A s \in StopIds :
              (stops[s].by = "viewer" /\ stops[s].pc # "done" /\ stops'[s].pc = "done") =>
                  /\ running'
                  /\ ~isMonitoringStarted'
                  /\ \E m \in emitted' : /\ m.ev = "monitoring-status"
                                         /\ ~m.active
                                         /\ m.to = sockets'
      ]_vars

\* C12: a start-monitoring request always clears manuallyStoppedMonitoring; when
\* the session is active the only message sent is an "already active"
\* monitoring-status to the requesting socket and no monitor or broker call is
\* issued; when the session is idle one startRabbitMQMonitoring() invocation
\* begins with monitor.connect(), as on an auto-starting connection.
C12_ExplicitStart ==
    [][ \A v \in Viewers : StartMonitoringRequest(v) =>
          /\ ~manuallyStoppedMonitoring'
          /\ isMonitoringStarted =>
                /\ emitted' # {}
                /\ \A m \in emitted' : /\ m.ev = "monitoring-status"
                                       /\ m.to = {v}
                                       /\ m.active
                                       /\ m.message = "RabbitMQ monitoring already active"
                /\ UNCHANGED <<starts, stops, monitorVars, brokerVars, isMonitoringStarted>>
          /\ ~isMonitoringStarted =>
                /\ NStarts' = NStarts + 1
                /\ starts'[NStarts + 1] = [pc |-> "connect", ch |-> 0]
                /\ UNCHANGED <<monitorVars, brokerVars, isMonitoringStarted>>
      ]_vars

\* An "already active" reply was sent to one of two connected viewers.
C12_Witness ==
    /\ running
    /\ isMonitoringStarted
    /\ ~manuallyStoppedMonitoring
    /\ Cardinality(sockets) = 2
    /\ \E m \in emitted : /\ m.ev = "monitoring-status"
                          /\ m.message = "RabbitMQ monitoring already active"
                          /\ Cardinality(m.to) = 1

\* C13 as stated: a stop-monitoring request received while the session is idle
\* sends an "already stopped" monitoring-status to the requester only, calls no
\* monitor operation and leaves isMonitoringStarted, manuallyStoppedMonitoring,
\* connectedClients and the timer as they were.
C13_IdleStopChangesNothing ==
    [][ \A v \in Viewers : (StopMonitoringRequest(v) /\ ~isMonitoringStarted) =>
          /\ emitted' # {}
          /\ \A m \in emitted' : /\ m.ev = "monitoring-status"
                                 /\ m.to = {v}
                                 /\ ~m.active
                                 /\ m.message = "RabbitMQ monitoring already stopped"
          /\ UNCHANGED <<starts, stops, monitorVars, brokerVars>>
          /\ UNCHANGED <<isMonitoringStarted, manuallyStoppedMonitoring,
                         connectedClients, disconnectTimeout, timers>>
      ]_vars

\* C13 amended: a stop-monitoring request received while the session is idle
\* sends an "already stopped" monitoring-status to the requester only, calls no
\* monitor operation, sets manuallyStoppedMonitoring and leaves
\* isMonitoringStarted, connectedClients and the timer as they were.
C13_IdleStopOnlySetsManual ==
    [][ \A v \in Viewers : (StopMonitoringRequest(v) /\ ~isMonitoringStarted) =>
          /\ emitted' # {}
          /\ \A m \in emitted' : /\ m.ev = "monitoring-status"
                                 /\ m.to = {v}
                                 /\ ~m.active
                                 /\ m.message = "RabbitMQ monitoring already stopped"
          /\ UNCHANGED <<starts, stops, monitorVars, brokerVars>>
          /\ UNCHANGED <<isMonitoringStarted, connectedClients, disconnectTimeout, timers>>
          /\ manuallyStoppedMonitoring'
      ]_vars

\* An "already stopped" reply was sent to one of two connected viewers.
C13_Witness ==
    /\ running
    /\ ~isMonitoringStarted
    /\ manuallyStoppedMonitoring
    /\ Cardinality(sockets) = 2
    /\ \E m \in emitted : /\ m.ev = "monitoring-status"
                          /\ m.message = "RabbitMQ monitoring already stopped"
                          /\ Cardinality(m.to) = 1

\* C14: manuallyStoppedMonitoring turns true only in a stop-monitoring request
\* and turns false only in a start-monitoring request or in the timer callback
\* that finds no viewer and an active session; connections, disconnections and
\* the completions of start and stop invocations leave it as it was.
C14_ManualStopWriters ==
    [][ /\ (~manuallyStoppedMonitoring /\ manuallyStoppedMonitoring') =>
              \E v \in Viewers : StopMonitoringRequest(v)
        /\ (manuallyStoppedMonitoring /\ ~manuallyStoppedMonitoring') =>
              \/ \E v \in Viewers : StartMonitoringRequest(v)
              \/ /\ \E t \in TimerIds : DisconnectTimeoutFired(t)
                 /\ connectedClients = 0
                 /\ isMonitoringStarted
        /\ ( \/ \E v \in Viewers : Connection(v) \/ Disconnect(v)
             \/ \E k \in StartIds : starts'[k].pc \in {"done", "failed"} /\ starts[k].pc # starts'[k].pc
             \/ \E s \in StopIds : stops'[s].pc = "done" /\ stops[s].pc \notin {"idle", "done"} ) =>
              manuallyStoppedMonitoring' = manuallyStoppedMonitoring
      ]_vars

\* The timer callback has just cleared a manual stop and called monitor.stop().
C14_Witness ==
    /\ running
    /\ connectedClients = 0
    /\ ~manuallyStoppedMonitoring
    /\ \E s \in StopIds : stops[s].by = "timer" /\ stops[s].pc = "closeChannel"
    /\ \E s \in StopIds : stops[s].by = "viewer" /\ stops[s].pc = "closeChannel"

\* C15: no request or failure path ends silently.  A request answered at once
\* sends the requester a monitoring-status in the same step; a start invocation
\* ends, in success or failure, with a monitoring-status or monitoring-error to
\* every connected socket; so does a stop invocation a viewer asked for.
C15_NoSilentEnd ==
    [][ /\ \A v \in Viewers :
              \/ StartMonitoringRequest(v) /\ isMonitoringStarted
              \/ StopMonitoringRequest(v) /\ ~isMonitoringStarted
              => \E m \in emitted' : m.ev = "monitoring-status" /\ v \in m.to
        /\ \A k \in StartIds :
              (starts[k].pc # starts'[k].pc /\ starts'[k].pc \in {"done", "failed"}) =>
                  \E m \in emitted' : /\ m.ev \in {"monitoring-status", "monitoring-error"}
                                      /\ m.to = sockets'
        /\ \A s \in StopIds :
              (stops[s].by = "viewer" /\ stops[s].pc # "done" /\ stops'[s].pc = "done") =>
                  \E m \in emitted' : /\ m.ev \in {"monitoring-status", "monitoring-error"}
                                      /\ m.to = sockets'
      ]_vars

\* C16: a monitor failure never ends the process.  After a rejected connect,
\* createChannel, assertQueue, bindQueue, prefetch or consume, after a rejected
\* channel or connection close, and after a record whose processing threw, the
\* process is running.
C16_FailureKeepsServerUp ==
    [][ ( \/ \E k \in StartIds : \/ AmqpConnectDone(k, FALSE)
                                 \/ CreateChannelDone(k, FALSE)
                                 \/ AssertQueueDone(k, FALSE)
                                 \/ BindQueueDone(k, FALSE)
                                 \/ PrefetchDone(k, FALSE)
                                 \/ ConsumeDone(k, FALSE)
          \/ \E s \in StopIds : CloseChannelDone(s, FALSE) \/ CloseConnectionDone(s, FALSE)
          \/ \E k \in StartIds, id \in MsgIds : TraceDelivered(k, FALSE, id) )
        => running'
      ]_vars

\* C17: monitor.stop() called on a monitor that holds no connection and no
\* channel raises nothing, leaves the monitor's fields as they were and leaves
\* the process running.
C17_StopBeforeStartIsNoOp ==
    [][ (DirectStop /\ connection = 0 /\ channel = 0) =>
          /\ UNCHANGED monitorVars
          /\ UNCHANGED brokerVars
          /\ running'
      ]_vars

\* C18: connect() on a monitor that already holds an open connection returns
\* what it holds: the call issues no amqp.connect, and no connect that resolves
\* while an open connection is held replaces it or adds a broker connection.
C18_ConnectIsIdempotent ==
    [][ /\ (connection # 0 /\ connection \in openConns /\ NStarts' = NStarts + 1) =>
              starts'[NStarts + 1].pc # "connect"
        /\ \A k \in StartIds :
              (AmqpConnectDone(k, TRUE) /\ connection # 0 /\ connection \in openConns) =>
                  /\ connection' = connection
                  /\ openConns' = openConns
      ]_vars

\* C19 as stated: with two viewers connected, a trace record processed without
\* error gives each viewer exactly one firehose-message, the two with the same
\* record fields and with different generated ids.
C19_FanOutDistinctIds ==
    [][ \A k \in StartIds, id \in MsgIds :
          (TraceDelivered(k, TRUE, id) /\ Cardinality(sockets) = 2) =>
              /\ \A v \in sockets :
                    Cardinality({m \in emitted' : m.ev = "firehose-message" /\ v \in m.to}) = 1
              /\ \A a, b \in sockets : \A ma, mb \in emitted' :
                    (/\ a # b
                     /\ ma.ev = "firehose-message" /\ a \in ma.to
                     /\ mb.ev = "firehose-message" /\ b \in mb.to) =>
                        (ma.record = mb.record /\ ma.id # mb.id)
      ]_vars

\* C19 amended: with two viewers connected, a trace record processed without
\* error gives each viewer exactly one firehose-message, the two with the same
\* record fields and the same generated id: one message, broadcast.
C19_FanOutSharedId ==
    [][ \A k \in StartIds, id \in MsgIds :
          (TraceDelivered(k, TRUE, id) /\ Cardinality(sockets) = 2) =>
              /\ \A v \in sockets :
                    Cardinality({m \in emitted' : m.ev = "firehose-message" /\ v \in m.to}) = 1
              /\ \A a, b \in sockets : \A ma, mb \in emitted' :
                    (/\ a # b
                     /\ ma.ev = "firehose-message" /\ a \in ma.to
                     /\ mb.ev = "firehose-message" /\ b \in mb.to) =>
                        (ma.record = mb.record /\ ma.id = mb.id /\ ma.id = id)
      ]_vars

\* A record has just been fanned out to two connected viewers.
C19_Witness ==
    /\ running
    /\ Cardinality(sockets) = 2
    /\ \E m \in emitted : m.ev = "firehose-message" /\ m.to = sockets

\* C20: a record delivered to consumer k, whose channel is then open, while the
\* monitor holds a channel, is settled exactly once on the channel it arrived
\* on: one ack and no nack if parsing and onMessage returned, one nack without
\* requeue and no ack if either threw.
C20_SettledExactlyOnce ==
    [][ \A k \in StartIds, good \in BOOLEAN, id \in MsgIds :
          (TraceDelivered(k, good, id) /\ k \in openChans /\ channel # 0) =>
              /\ Cardinality({m \in emitted' : m.ev \in {"ack", "nack"}}) = 1
              /\ \A m \in emitted' : m.ev \in {"ack", "nack"} =>
                    /\ m.on = k
                    /\ m.tag = k
                    /\ m.ev = (IF good THEN "ack" ELSE "nack")
                    /\ ~m.requeue
      ]_vars

\* C21: a record whose processing threw, delivered while the monitor holds a
\* channel, stays an affair of that record: isMonitoringStarted and
\* manuallyStoppedMonitoring keep their values, no monitoring-error is sent, the
\* process runs on, and consumer k is at once ready for its next record.
C21_RecordFailureIsolated ==
    [][ \A k \in StartIds, id \in MsgIds :
          (TraceDelivered(k, FALSE, id) /\ channel # 0) =>
              /\ UNCHANGED <<isMonitoringStarted, manuallyStoppedMonitoring>>
              /\ \A m \in emitted' : m.ev # "monitoring-error"
              /\ running'
              /\ k \in consumers'
              /\ k \notin unacked'
      ]_vars

\* C22: a connection that finds isMonitoringStarted and manuallyStoppedMonitoring
\* false and no start in flight begins exactly one startRabbitMQMonitoring()
\* invocation; when an invocation succeeds, isMonitoringStarted is true and a
\* monitoring-status with active = true goes to every connected socket.
C22_AutoStartOnConnect ==
    [][ /\ \A v \in Viewers :
              (/\ Connection(v)
               /\ ~isMonitoringStarted
               /\ ~manuallyStoppedMonitoring
               /\ InFlightStarts = {}) =>
                  /\ Cardinality(InFlightStarts') = 1
                  /\ NStarts' = NStarts + 1
        /\ \A k \in StartIds :
              (starts[k].pc # "done" /\ starts'[k].pc = "done") =>
                  /\ isMonitoringStarted'
                  /\ \E m \in emitted' : /\ m.ev = "monitoring-status"
                                         /\ m.active
                                         /\ m.to = sockets'
      ]_vars

\* The start begun by a first connection has succeeded with two viewers present.
C22_Witness ==
    /\ running
    /\ isMonitoringStarted
    /\ NStarts = 1
    /\ starts[1].pc = "done"
    /\ Cardinality(sockets) = 2
    /\ \E m \in emitted : /\ m.ev = "monitoring-status"
                          /\ m.active
                          /\ m.message = "RabbitMQ monitoring started"
                          /\ m.to = sockets

\* C23: a connection that finds isMonitoringStarted false and
\* manuallyStoppedMonitoring true begins no start, calls nothing on the monitor
\* or the broker, leaves both flags as they are, and sends its messages, among
\* them the "manually stopped" monitoring-status, to the connecting socket only.
C23_ConnectAfterManualStop ==
    [][ \A v \in Viewers :
          (Connection(v) /\ ~isMonitoringStarted /\ manuallyStoppedMonitoring) =>
              /\ UNCHANGED <<starts, stops, monitorVars, brokerVars>>
              /\ UNCHANGED <<isMonitoringStarted, manuallyStoppedMonitoring>>
              /\ \E m \in emitted' : /\ m.ev = "monitoring-status"
                                     /\ ~m.active
                                     /\ m.message = "RabbitMQ monitoring manually stopped"
              /\ \A m \in emitted' : m.ev # "log" => m.to = {v}
      ]_vars

\* A second viewer has just connected to a manually stopped, idle session.
C23_Witness ==
    /\ running
    /\ ~isMonitoringStarted
    /\ manuallyStoppedMonitoring
    /\ Cardinality(sockets) = 2
    /\ InFlightStarts = {}
    /\ \E m \in emitted : /\ m.ev = "monitoring-status"
                          /\ m.message = "RabbitMQ monitoring manually stopped"
                          /\ Cardinality(m.to) = 1

\* C25: a disconnect that leaves at least one viewer lowers connectedClients by
\* one and nothing else: both flags, the timer handle and the pending timers are
\* as before, no start or stop begins, and the monitor and the broker are
\* untouched.
C25_DisconnectWithViewersLeft ==
    [][ \A v \in Viewers : (Disconnect(v) /\ connectedClients > 1) =>
          /\ connectedClients' = connectedClients - 1
          /\ UNCHANGED <<isMonitoringStarted, manuallyStoppedMonitoring,
                         disconnectTimeout, timers>>
          /\ UNCHANGED <<starts, stops, monitorVars, brokerVars, running>>
      ]_vars

\* One of two viewers of an active session has just left.
C25_Witness ==
    /\ running
    /\ isMonitoringStarted
    /\ connectedClients = 1
    /\ Cardinality(sockets) = 1
    /\ emitted = {}
    /\ timers = {}
    /\ InFlightStarts = {}
    /\ InFlightStops = {}
    /\ NStarts = 1
    /\ consumers = {1}
    /\ unacked = {}

\* C26: connectedClients is never negative and equals the number of sockets
\* that have connected and not yet disconnected.
C26_ViewerCount ==
    /\ connectedClients >= 0
    /\ connectedClients = Cardinality(sockets)

\* Both viewers have connected and one has left again, the session active.
C26_Witness ==
    /\ running
    /\ connectedClients = 1
    /\ sockets = {2}
    /\ isMonitoringStarted
    /\ NStarts = 2
    /\ emitted = {}

\* C27: every connection sends exactly one connection-status, to the connecting
\* socket alone, whose clientCount is the number of connected viewers with the
\* new one counted in and whose monitoringActive is isMonitoringStarted as the
\* handler finds it.
C27_ConnectionStatus ==
    [][ \A v \in Viewers : Connection(v) =>
          /\ Cardinality({m \in emitted' : m.ev = "connection-status"}) = 1
          /\ \A m \in emitted' : m.ev = "connection-status" =>
                /\ m.to = {v}
                /\ m.clientCount = Cardinality(sockets) + 1
                /\ m.clientCount = connectedClients'
                /\ m.active = isMonitoringStarted
      ]_vars

\* The second viewer of an active session has just been told so.
C27_Witness ==
    /\ running
    /\ Cardinality(sockets) = 2
    /\ \E m \in emitted : /\ m.ev = "connection-status"
                          /\ m.clientCount = 2
                          /\ m.active
                          /\ Cardinality(m.to) = 1

\* C28 as stated: the action is the part of the key before its first dot; the
\* target is the part between the first dot and the next one (or the end), and
\* "unknown" when the key has no dot.
C28_TargetIsSecondSegment ==
    parsed.done =>
        LET dots == {i \in 1..Len(routingKey) : routingKey[i] = "."}
            end(from) == IF \E i \in dots : i >= from
                         THEN (CHOOSE i \in dots : i >= from /\ \A j \in dots : j >= from => i <= j) - 1
                         ELSE Len(routingKey)
        IN  /\ parsed.action = SubSeq(routingKey, 1, end(1))
            /\ parsed.target = IF dots = {} THEN Unknown
                               ELSE SubSeq(routingKey, end(1) + 2, end(end(1) + 2))

\* C28 amended: the action is the part of the key before its first dot; the
\* target is the part between the first dot and the next one (or the end), and
\* "unknown" when the key has no dot or that part is empty.
C28_TargetOrUnknown ==
    parsed.done =>
        LET dots == {i \in 1..Len(routingKey) : routingKey[i] = "."}
            end(from) == IF \E i \in dots : i >= from
                         THEN (CHOOSE i \in dots : i >= from /\ \A j \in dots : j >= from => i <= j) - 1
                         ELSE Len(routingKey)
            second == SubSeq(routingKey, end(1) + 2, end(end(1) + 2))
        IN  /\ parsed.action = SubSeq(routingKey, 1, end(1))
            /\ parsed.target = IF dots = {} \/ second = <<>> THEN Unknown ELSE second

\* A key of three segments has been parsed.
C28_Witness ==
    /\ parsed.done
    /\ routingKey = <<"p", ".", "x", ".">>
    /\ parsed.action = <<"p">>
    /\ parsed.target = <<"x">>

\* C29: the message list never holds more than maxMessages entries and is
\* ordered newest first.
C29_ListBoundedNewestFirst ==
    /\ Len(messages) <= maxMessages
    /\ \A i, j \in 1..Len(messages) : i < j => messages[i] > messages[j]

\* C30: whenever no start and no stop is in flight, a viewer is connected,
\* manuallyStoppedMonitoring is false and the latest start did not fail, the
\* process is running with monitoring active.
C30_ViewersImplyActive ==
    (/\ InFlightStarts = {}
     /\ InFlightStops = {}
     /\ sockets # {}
     /\ ~manuallyStoppedMonitoring
     /\ (NStarts > 0 => starts[NStarts].pc # "failed")) =>
        (running /\ isMonitoringStarted)

\* C31: once a stop-monitoring request has been handled, with no start-monitoring
\* request after it (manuallyStoppedMonitoring is still set), and no start or
\* stop invocation is in flight any more, the session is idle; so too when the
\* request came while a start was in flight.
C31_StopThenQuiescentIsIdle ==
    (/\ running
     /\ manuallyStoppedMonitoring
     /\ InFlightStarts = {}
     /\ InFlightStops = {}) =>
        ~isMonitoringStarted

\* C32: whenever no start and no stop invocation is in flight, the active flag
\* shown by the page of every connected viewer (taken from the last
\* monitoring-status it got, false after a monitoring-error) equals
\* isMonitoringStarted.
C32_ShownFlagMatches ==
    (running /\ InFlightStarts = {} /\ InFlightStops = {}) =>
        \A v \in sockets : monitoringStatus[v] = isMonitoringStarted

\* C33: the broker never holds more than one open connection of the monitor, and
\* whenever the session is idle with no start and no stop in flight it holds no
\* open connection and no open channel of it, a start that failed while
\* subscribing included.
C33_NoLeakedConnection ==
    /\ Cardinality(openConns) <= 1
    /\ (running /\ ~isMonitoringStarted /\ InFlightStarts = {} /\ InFlightStops = {}) =>
          (openConns = {} /\ openChans = {})

\* C34: while the process runs, at most one grace timer is pending and
\* disconnectTimeout is non-null exactly when one is, naming that timer: no
\* timer is armed while another is pending, and the handle is null again once
\* the timer has fired or has been cleared.
C34_OneTimerAndHandle ==
    running =>
        /\ Cardinality(timers) <= 1
        /\ disconnectTimeout # 0 <=> timers # {}
        /\ disconnectTimeout # 0 => timers = {disconnectTimeout}

\* The timer has fired and called the stop; a viewer has connected since; no
\* timer is pending and the handle is null.
C34_Witness ==
    /\ running
    /\ disconnectTimeout = 0
    /\ timers = {}
    /\ connectedClients = 1
    /\ \E s \in StopIds : stops[s].by = "timer" /\ stops[s].pc = "closeChannel"

====
